---- MODULE Spec2Model ----
(***************************************************************************)
(* Deskmate-AI: the undo/redo History Engine (services/undo_redo.py) and   *)
(* the command handler that feeds it (core/command_handler.py).            *)
(*                                                                         *)
(* Dotted Python paths are sequences of their segments:                    *)
(*   "apps.open_app"  is  <<"apps", "open_app">>.                          *)
(* None and the empty string are both the empty path << >> (the code only  *)
(* ever tests them with `not x`).  Keyword arguments are sets of           *)
(* <<name, value>> pairs.                                                  *)
(*                                                                         *)
(* The resolver (core/mapper.py), the Learner (core/learner.py) and the    *)
(* mappings table (services/database.py) follow.  A command text is the    *)
(* sequence of its words and blanks: "open chrome" is                      *)
(* <<"open", " ", "chrome">>; words are atomic and the only whitespace is  *)
(* the blank.  An action name "module:function" is the sequence of its     *)
(* colon-separated parts, <<"apps", "open_app">>.  Similarity scores of    *)
(* the fuzzywuzzy library are inputs, on its scale of 0..100.              *)
(***************************************************************************)
EXTENDS Integers, Sequences, FiniteSets, TLC

\* ------------------------------------------------------------------ bounds
MaxRecords == 3      \* ActionRecords created in one run
MaxHistory == 4      \* rows in the history table in one run
MaxMappings == 2     \* rows in the mappings table

\* ------------------------------------------------- the automation catalog
NoPath == << >>

AutomationModules == {"apps", "system"}

\* public functions of each automation module, with their parameter lists
\* (every parameter is required: none has a default)
Params ==
  [apps   |-> [open_app          |-> <<"app_name">>,
               close_app         |-> <<"app_name">>,
               list_running_apps |-> << >>],
   system |-> [shutdown          |-> << >>]]

NoFunction == [module |-> "", function |-> ""]

Last(s) == s[Len(s)]
Front(s) == SubSeq(s, 1, Len(s) - 1)

\* importlib.import_module(name): the package path always resolves; the
\* bare module name resolves only when the automation directory itself is
\* on sys.path ("running without package context")
Importable(module_name, bare) ==
  \/ /\ Len(module_name) = 3
     /\ module_name[1] = "backend" /\ module_name[2] = "automation"
     /\ module_name[3] \in AutomationModules
  \/ /\ bare
     /\ Len(module_name) = 1
     /\ module_name[1] \in AutomationModules

HasAttr(module, func_name) == func_name \in DOMAIN Params[module]

\* Python's argument binding for a function whose parameters are all
\* required positional-or-keyword: TypeError unless every parameter is
\* bound exactly once
Binds(fn, args, kwargs) ==
  LET params == Params[fn.module][fn.function]
  IN  /\ Len(args) <= Len(params)
      /\ Cardinality(kwargs) = Cardinality({kv[1] : kv \in kwargs})
      /\ {kv[1] : kv \in kwargs} = {params[i] : i \in (Len(args) + 1)..Len(params)}

\* ------------------------------------------------------------------ state
VARIABLES
  executed_stack,   \* UndoRedoManager._executed_stack
  undone_stack,     \* UndoRedoManager._undone_stack
  history,          \* rows of the history table, oldest first
  next_id,          \* identity of the next ActionRecord object
  bare_import,      \* sys.path also resolves bare automation module names
  db_writable,      \* the history database accepts writes in this run
  undo_redo,        \* the services.undo_redo module could be imported
  last_op,          \* the entry point that ran last
  last_result,      \* what it returned
  calls,            \* the functions it invoked, in order
  mappings,         \* rows of the mappings table
  fuzzy,            \* the fuzzywuzzy library can be imported
  resolved          \* what the last call on the resolver's side did

vars == <<executed_stack, undone_stack, history, next_id, bare_import,
          db_writable, undo_redo, last_op, last_result, calls,
          mappings, fuzzy, resolved>>

env == <<bare_import, db_writable, undo_redo>>

Result(status, message, function_executed, result) ==
  [status |-> status, message |-> message,
   function_executed |-> function_executed, result |-> result]

Call(fn, args, kwargs) ==
  [module |-> fn.module, function |-> fn.function, args |-> args, kwargs |-> kwargs]

\* the dict the resolver hands to the command handler
Mapping(module, function, args, kwargs) ==
  [module |-> module, function |-> function, args |-> args, kwargs |-> kwargs]

\* nothing has been asked of the resolver yet
NoResolution == [step |-> "none"]

ActionRecord(id, function_path, args, kwargs, reversible, undo_function_path) ==
  [id |-> id, function_path |-> function_path, args |-> args, kwargs |-> kwargs,
   reversible |-> reversible, undo_function_path |-> undo_function_path]

Init ==
  /\ executed_stack = << >>
  /\ undone_stack = << >>
  /\ history = << >>
  /\ next_id = 1
  /\ bare_import \in BOOLEAN
  /\ db_writable \in BOOLEAN
  /\ undo_redo \in BOOLEAN
  /\ last_op = "init"
  /\ last_result = Result("none", "", NoPath, "none")
  /\ calls = << >>
  /\ mappings = {}
  /\ fuzzy = TRUE
  /\ resolved = NoResolution

\* ------------------------------------------------------------ persistence
\* DatabaseManager.log_history: one INSERT in one transaction; a failed
\* write raises and leaves the table as it was.  Every caller in
\* undo_redo.py swallows that exception.
log_history(h, command, action, db_ok) ==
  IF db_ok THEN Append(h, [command |-> command, action |-> action]) ELSE h

\* --------------------------------------------------------- History Engine
\* what an operation of the engine leaves behind and hands back
Outcome(executed, undone, h, result, invoked) ==
  [executed |-> executed, undone |-> undone, history |-> h,
   result |-> result, calls |-> invoked]

NoResult == Result("none", "", NoPath, "none")

\* UndoRedoManager._import_function
import_function(function_path, bare) ==
  IF Len(function_path) < 2 THEN NoFunction
  ELSE LET module_name == Front(function_path)
           func_name   == Last(function_path)
       IN  IF /\ Importable(module_name, bare)
              /\ HasAttr(Last(module_name), func_name)
           THEN [module |-> Last(module_name), function |-> func_name]
           ELSE NoFunction

\* mutant: the record is inserted at the bottom of the executed-stack
record_action_at_bottom(executed, undone, h, record, db_ok) ==
  Outcome(<<record>> \o executed, << >>,
          log_history(h, record.function_path, "EXECUTE", db_ok),
          NoResult, << >>)

\* mutant: the undone-stack is not cleared
record_action_keeps_redo(executed, undone, h, record, db_ok) ==
  Outcome(Append(executed, record), undone,
          log_history(h, record.function_path, "EXECUTE", db_ok),
          NoResult, << >>)

\* UndoRedoManager.record_action
record_action(executed, undone, h, record, db_ok) ==
  Outcome(Append(executed, record), << >>,
          log_history(h, record.function_path, "EXECUTE", db_ok),
          NoResult, << >>)

\* mutant: only the reversible flag is tested
not_reversible_flag_only(record) == ~record.reversible

\* `not record.reversible or not record.undo_function_path`
not_reversible(record) ==
  ~record.reversible \/ record.undo_function_path = NoPath

\* undo_last once the record has been moved: run the inverse, or say why not
undo_outcome(record, bare) ==
  IF not_reversible(record)
  THEN [result |-> Result("error", "Action is not reversible", NoPath, "none"),
        calls  |-> << >>]
  ELSE LET undo_fn == import_function(record.undo_function_path, bare)
       IN  IF undo_fn = NoFunction
           THEN [result |-> Result("error", "Undo function not found", NoPath, "none"),
                 calls  |-> << >>]
           ELSE IF ~Binds(undo_fn, record.args, record.kwargs)
           THEN [result |-> Result("error", "TypeError", NoPath, "none"),
                 calls  |-> << >>]
           ELSE [result |-> Result("success", "Undo executed",
                                   record.undo_function_path, "none"),
                 calls  |-> <<Call(undo_fn, record.args, record.kwargs)>>]

\* mutant: a failed inverse puts the record back on the executed-stack
undo_move_rollback(executed, undone, h, bare, db_ok) ==
  LET record == Last(executed)
      out    == undo_outcome(record, bare)
  IN  IF out.result.status = "error" /\ ~not_reversible(record)
      THEN Outcome(executed, undone, h, out.result, out.calls)
      ELSE Outcome(Front(executed), Append(undone, record),
                   log_history(h, record.function_path, "UNDO", db_ok),
                   out.result, out.calls)

\* undo_last on a non-empty executed-stack: pop, push, log, then the inverse
undo_move(executed, undone, h, bare, db_ok) ==
  LET record == Last(executed)
      out    == undo_outcome(record, bare)
  IN  Outcome(Front(executed), Append(undone, record),
              log_history(h, record.function_path, "UNDO", db_ok),
              out.result, out.calls)

\* mutant: the UNDO event is logged before the stack is looked at
undo_last_logs_first(executed, undone, h, bare, db_ok) ==
  IF executed = << >>
  THEN Outcome(executed, undone, log_history(h, NoPath, "UNDO", db_ok),
               Result("error", "Nothing to undo", NoPath, "none"), << >>)
  ELSE undo_move(executed, undone, h, bare, db_ok)

\* UndoRedoManager.undo_last
undo_last(executed, undone, h, bare, db_ok) ==
  IF executed = << >>
  THEN Outcome(executed, undone, h,
               Result("error", "Nothing to undo", NoPath, "none"), << >>)
  ELSE undo_move(executed, undone, h, bare, db_ok)

\* mutant: redo runs the inverse
redo_target_inverse(record) == record.undo_function_path

\* the function redo_last imports: the record's own function_path
redo_target(record) == record.function_path

\* redo_last once the record has been moved back: run the original again
redo_outcome(record, bare) ==
  LET redo_fn == import_function(redo_target(record), bare)
  IN  IF redo_fn = NoFunction
      THEN [result |-> Result("error", "Function not found for redo", NoPath, "none"),
            calls  |-> << >>]
      ELSE IF ~Binds(redo_fn, record.args, record.kwargs)
      THEN [result |-> Result("error", "TypeError", NoPath, "none"),
            calls  |-> << >>]
      ELSE [result |-> Result("success", "Redo executed", record.function_path, "none"),
            calls  |-> <<Call(redo_fn, record.args, record.kwargs)>>]

\* mutant: the record is pushed back without being popped
redo_move_no_pop(executed, undone, h, bare, db_ok) ==
  LET record == Last(undone)
      out    == redo_outcome(record, bare)
  IN  Outcome(Append(executed, record), undone,
              log_history(h, record.function_path, "REDO", db_ok),
              out.result, out.calls)

\* mutant: the record undone first is redone first
redo_move_oldest(executed, undone, h, bare, db_ok) ==
  LET record == Head(undone)
      out    == redo_outcome(record, bare)
  IN  Outcome(Append(executed, record), Tail(undone),
              log_history(h, record.function_path, "REDO", db_ok),
              out.result, out.calls)

\* redo_last on a non-empty undone-stack: pop, push back, log, then the call
redo_move(executed, undone, h, bare, db_ok) ==
  LET record == Last(undone)
      out    == redo_outcome(record, bare)
  IN  Outcome(Append(executed, record), Front(undone),
              log_history(h, record.function_path, "REDO", db_ok),
              out.result, out.calls)

\* UndoRedoManager.redo_last
redo_last(executed, undone, h, bare, db_ok) ==
  IF undone = << >>
  THEN Outcome(executed, undone, h,
               Result("error", "Nothing to redo", NoPath, "none"), << >>)
  ELSE redo_move(executed, undone, h, bare, db_ok)

\* ------------------------------------------------------- permission gate
Roles == {"admin", "standard_user", "guest"}

SAFE_READ_ONLY_FUNCTIONS == {<<"apps", "list_running_apps">>}

\* ROLE_POLICIES["standard_user"]
AllowedCategories == {"browser", "youtube", "apps", "email", "whatsapp"}
BlockedFunctions == {<<"system", "shutdown">>}

\* permissions.check_permission for the role users.json gives the user and
\* the command reference "module.function"
check_permission(role, command) ==
  IF role = "admin" THEN TRUE
  ELSE IF role = "guest" THEN command \in SAFE_READ_ONLY_FUNCTIONS
  ELSE /\ command \notin BlockedFunctions
       /\ command[1] \in AllowedCategories

\* ------------------------------------------------------- command handler
\* CommandHandler._import_automation_module: the package path first, the
\* bare module name as the fallback; FALSE when both raise ImportError
import_automation_module(module_name, bare) ==
  \/ Importable(<<"backend", "automation", module_name>>, bare)
  \/ Importable(<<module_name>>, bare)

\* mutant: the permission gate is not consulted
execute_outcome_ungated(mapping, role, bare) ==
  IF mapping.module = "" \/ mapping.function = "" THEN "ValueError"
  ELSE IF ~import_automation_module(mapping.module, bare) THEN "ImportError"
  ELSE IF ~HasAttr(mapping.module, mapping.function) THEN "AttributeError"
  ELSE IF ~Binds(mapping, mapping.args, mapping.kwargs) THEN "TypeError"
  ELSE "called"

\* how far CommandHandler.execute gets with the mapping the resolver
\* returned: the exception that ends it, or "called" when the automation
\* function ran and returned
execute_outcome(mapping, role, bare) ==
  IF mapping.module = "" \/ mapping.function = "" THEN "ValueError"
  ELSE IF ~import_automation_module(mapping.module, bare) THEN "ImportError"
  ELSE IF ~HasAttr(mapping.module, mapping.function) THEN "AttributeError"
  ELSE IF ~check_permission(role, <<mapping.module, mapping.function>>)
       THEN "Permission denied"
  ELSE IF ~Binds(mapping, mapping.args, mapping.kwargs) THEN "TypeError"
  ELSE "called"

\* mutant: the handler records open_app as reversible by close_app
handler_record_action_reversible(executed, undone, h, id, mapping, loaded, db_ok) ==
  IF loaded
  THEN record_action(executed, undone, h,
                     ActionRecord(id, <<mapping.module, mapping.function>>,
                                  mapping.args, mapping.kwargs, TRUE,
                                  <<"backend", "automation", "apps", "close_app">>),
                     db_ok)
  ELSE Outcome(executed, undone, h, NoResult, << >>)

\* CommandHandler._record_action: the record is created with the defaults
\* reversible=False, undo_function_path=None
handler_record_action(executed, undone, h, id, mapping, loaded, db_ok) ==
  IF loaded
  THEN record_action(executed, undone, h,
                     ActionRecord(id, <<mapping.module, mapping.function>>,
                                  mapping.args, mapping.kwargs, FALSE, NoPath),
                     db_ok)
  ELSE Outcome(executed, undone, h, NoResult, << >>)

\* mutant: the action is recorded before the automation function is called
execute_records_first(executed, undone, h, id, resolution, role, body, loaded, bare, db_ok) ==
  IF resolution.raised
  THEN Outcome(executed, undone, h,
               Result("error", "Failed to resolve command", NoPath, "none"), << >>)
  ELSE LET mapping == resolution.mapping
           how     == execute_outcome(mapping, role, bare)
           rec     == handler_record_action(executed, undone, h, id, mapping,
                                            loaded, db_ok)
       IN  IF how = "TypeError"
           THEN Outcome(rec.executed, rec.undone, rec.history,
                        Result("error", how, NoPath, "none"), << >>)
           ELSE IF how # "called"
           THEN Outcome(executed, undone, h, Result("error", how, NoPath, "none"), << >>)
           ELSE Outcome(rec.executed, rec.undone, rec.history,
                        Result("success", "Command executed successfully",
                               <<mapping.module, mapping.function>>, body),
                        <<Call(mapping, mapping.args, mapping.kwargs)>>)

\* CommandHandler.execute once the resolver has answered.  `body` is the
\* status of the dict the automation function returns: every automation
\* function catches its own exceptions and returns _ok(...) or _err(...).
execute(executed, undone, h, id, resolution, role, body, loaded, bare, db_ok) ==
  IF resolution.raised
  THEN Outcome(executed, undone, h,
               Result("error", "Failed to resolve command", NoPath, "none"), << >>)
  ELSE LET mapping == resolution.mapping
           how     == execute_outcome(mapping, role, bare)
       IN  IF how # "called"
           THEN Outcome(executed, undone, h, Result("error", how, NoPath, "none"), << >>)
           ELSE LET rec == handler_record_action(executed, undone, h, id, mapping,
                                                 loaded, db_ok)
                IN  Outcome(rec.executed, rec.undone, rec.history,
                            Result("success", "Command executed successfully",
                                   <<mapping.module, mapping.function>>, body),
                            <<Call(mapping, mapping.args, mapping.kwargs)>>)

\* mutant: a missing undo/redo service is not reported but raised
handler_undo_raises(executed, undone, h, loaded, bare, db_ok) ==
  IF ~loaded
  THEN Outcome(executed, undone, h, Result("raised", "", NoPath, "none"), << >>)
  ELSE LET out == undo_last(executed, undone, h, bare, db_ok)
       IN  Outcome(out.executed, out.undone, out.history,
                   Result("success", "Undo executed", out.result, "none"), out.calls)

\* CommandHandler.undo: the engine's answer, whatever it is, is handed back
\* as function_executed of a success response; a missing service raises
\* RuntimeError inside the try and comes back as an error response
handler_undo(executed, undone, h, loaded, bare, db_ok) ==
  IF ~loaded
  THEN Outcome(executed, undone, h,
               Result("error", "Undo/redo service not available", NoPath, "none"), << >>)
  ELSE LET out == undo_last(executed, undone, h, bare, db_ok)
       IN  Outcome(out.executed, out.undone, out.history,
                   Result("success", "Undo executed", out.result, "none"), out.calls)

\* CommandHandler.redo
handler_redo(executed, undone, h, loaded, bare, db_ok) ==
  IF ~loaded
  THEN Outcome(executed, undone, h,
               Result("error", "Undo/redo service not available", NoPath, "none"), << >>)
  ELSE LET out == redo_last(executed, undone, h, bare, db_ok)
       IN  Outcome(out.executed, out.undone, out.history,
                   Result("success", "Redo executed", out.result, "none"), out.calls)

\* ----------------------------------------------------------- command text
\* Python's None where a dict is expected
None == [none |-> TRUE]

\* dict.get(key) or default: a missing key and a falsy value both give the
\* default
Get(dict, key, default) == IF key \in DOMAIN dict THEN dict[key] ELSE default

\* str.strip()
strip(text) ==
  LET words == {i \in 1..Len(text) : text[i] # " "}
  IN  IF words = {} THEN << >>
      ELSE SubSeq(text, CHOOSE i \in words : \A j \in words : i <= j,
                        CHOOSE i \in words : \A j \in words : i >= j)

\* str.split(): the words of the text
split(text) == SelectSeq(text, LAMBDA c : c # " ")

\* text.split(" ", 1)[1] of a text that holds a blank: what follows the
\* first blank
after_first_blank(text) ==
  LET blanks == {i \in 1..Len(text) : text[i] = " "}
  IN  SubSeq(text, (CHOOSE i \in blanks : \A j \in blanks : i <= j) + 1, Len(text))

HasBlank(text) == \E i \in 1..Len(text) : text[i] = " "

\* the words the pattern (https?://\S+|www\.\S+|\w+\.\w{2,}) matches
UrlWords == {"example.com"}

\* re.search of that pattern: the first matching word, << >> when none
url_search(text) ==
  LET hits == {i \in 1..Len(text) : text[i] \in UrlWords}
  IN  IF hits = {} THEN << >>
      ELSE <<text[CHOOSE i \in hits : \A j \in hits : i <= j]>>

\* --------------------------------------------------------- mappings table
\* mutant: a plain INSERT into a table without the UNIQUE constraint
add_mapping_insert(rows, command_text, action_name) ==
  rows \cup {[command_text |-> command_text, action_name |-> action_name]}

\* DatabaseManager.add_mapping: INSERT OR REPLACE on the UNIQUE command_text
add_mapping(rows, command_text, action_name) ==
  {r \in rows : r.command_text # command_text}
    \cup {[command_text |-> command_text, action_name |-> action_name]}

\* DatabaseManager.get_mapping: None without a row; with one, a dict that
\* carries module, function and empty args and kwargs only when the stored
\* action name holds a colon
get_mapping(rows, command_text) ==
  LET hit == {r \in rows : r.command_text = command_text}
  IN  IF hit = {} THEN None
      ELSE LET action_name == (CHOOSE r \in hit : TRUE).action_name
           IN  IF Len(action_name) >= 2
               THEN [action_name |-> action_name,
                     module |-> action_name[1], function |-> action_name[2],
                     args |-> << >>, kwargs |-> {}]
               ELSE [action_name |-> action_name]

\* every command text of the model, in the order of ORDER BY command_text
\* ASC (the blank sorts before every letter)
SortedTexts ==
  << <<"open">>,
     <<"open", " ", " ", "chrome">>,
     <<"open", " ", "chrome">>,
     <<"shutdown">> >>

\* DatabaseManager.list_commands: the stored texts in ascending order
list_commands(rows) ==
  SelectSeq(SortedTexts, LAMBDA t : \E r \in rows : r.command_text = t)

\* --------------------------------------------------------------- resolver
\* no action key: None (and the empty string) where a key is expected
NoKey == << >>

\* CommandRegistry: one entry "module:function" per public function of
\* each automation module
Registry == UNION {{<<m, f>> : f \in DOMAIN Params[m]} : m \in AutomationModules}

\* the action keys of config/commands.json, in file order; the second one
\* names no function of the catalog
commands_index == << <<"apps", "open_app">>, <<"open_browser">> >>

\* AdaptiveMapper._map_action_via_registry
map_action_via_registry(action_key) ==
  IF action_key \in Registry
  THEN Mapping(action_key[1], action_key[2], << >>, {})
  ELSE None

\* the loop both matchers run: the first candidate with the highest score
\* above 0, since only a strictly better score replaces the best so far
RECURSIVE best_match(_, _, _, _)
best_match(candidates, scores, i, best) ==
  IF i > Len(candidates) THEN best
  ELSE best_match(candidates, scores, i + 1,
                  IF scores[i] > best.score
                  THEN [key |-> candidates[i], score |-> scores[i]]
                  ELSE best)

\* AdaptiveMapper._recognize_or_match without an intent recognizer (the
\* module-level resolve_command builds the mapper without one):
\* key_scores[i] is the best token_set_ratio of the text against the i-th
\* action key and its synonyms
recognize_or_match(key_scores) ==
  best_match(commands_index, key_scores, 1, [key |-> NoKey, score |-> 0])

\* `score >= 0.8` on best_score / 100.0, and `best_score >= 80`
AutoAccept == 80
ReuseThreshold == 80

\* the positional arguments the extraction rule of module.function draws
\* from the stripped text; << >> when no rule applies or the rule finds
\* nothing
extract_args(module, function, text) ==
  LET words == split(text)
  IN  IF module = "apps" /\ function \in {"open_app", "close_app"}
      THEN IF Len(words) >= 2 /\ strip(after_first_blank(text)) # << >>
           THEN <<strip(after_first_blank(text))>>
           ELSE << >>
      ELSE IF module = "browser" /\ function = "open_url"
      THEN IF url_search(text) # << >> THEN <<url_search(text)>>
           ELSE IF Len(text) >= 2 /\ text[1] = "open" /\ text[2] = " " /\ Len(words) >= 2
           THEN << <<"https://", words[2], ".com">> >>
           ELSE << >>
      ELSE IF module = "browser" /\ function = "search_google"
      THEN IF Len(text) >= 2 /\ text[1] = "search" /\ text[2] = " "
                /\ strip(after_first_blank(text)) # << >>
           THEN <<strip(after_first_blank(text))>>
           ELSE <<text>>
      ELSE IF module = "youtube" /\ function \in {"play_video", "search_and_play"}
      THEN IF HasBlank(text) THEN <<strip(after_first_blank(text))>> ELSE <<text>>
      ELSE << >>

\* mutant: the extraction rule overrides the arguments the mapping carries
enrich_mapping_overriding_args(text_command, mapping) ==
  LET module   == Get(mapping, "module", "")
      function == Get(mapping, "function", "")
  IN  Mapping(module, function, extract_args(module, function, strip(text_command)),
              Get(mapping, "kwargs", {}))

\* AdaptiveMapper._enrich_mapping_with_args
enrich_mapping_with_args(text_command, mapping) ==
  LET module   == Get(mapping, "module", "")
      function == Get(mapping, "function", "")
      args     == Get(mapping, "args", << >>)
      kwargs   == Get(mapping, "kwargs", {})
  IN  IF args # << >>
      THEN Mapping(module, function, args, kwargs)
      ELSE Mapping(module, function,
                   extract_args(module, function, strip(text_command)), kwargs)

\* the loop of _match_existing_db_command over the stored command texts:
\* db_scores[t] is the token_set_ratio of the text against the stored text t
best_stored(rows, db_scores) ==
  LET commands == list_commands(rows)
  IN  best_match(commands, [i \in 1..Len(commands) |-> db_scores[commands[i]]],
                 1, [key |-> NoKey, score |-> 0])

\* mutant: the best stored command is reused whatever its score
match_existing_db_command_any_score(rows, db_scores) ==
  IF rows = {} \/ best_stored(rows, db_scores).key = NoKey THEN None
  ELSE get_mapping(rows, best_stored(rows, db_scores).key)

\* AdaptiveMapper._match_existing_db_command
match_existing_db_command(rows, db_scores) ==
  LET best == best_stored(rows, db_scores)
  IN  IF list_commands(rows) = << >> THEN None
      ELSE IF best.key # NoKey /\ best.score >= ReuseThreshold
      THEN get_mapping(rows, best.key)
      ELSE None

\* ---------------------------------------------------------------- Learner
\* the names the body of class Learner defines (learner.py:36-311); the
\* four functions after clear_command_mapping (402-449) are indented into
\* that function's body and are not attributes of the class
LearnerAttributes ==
  {"__init__", "handle_unknown", "_suggest_action", "_map_action_via_registry",
   "_persist_mapping", "_list_registry_actions", "_print_box", "_prompt_module_choice",
   "_list_module_functions", "_prompt_function_choice", "_interactive_manual_map"}

\* Learner.__init__ with a commands_config_path: the exception it raises,
\* "" when it returns
learner_init ==
  IF "_import_database" \notin LearnerAttributes THEN "AttributeError"
  ELSE IF "_load_commands_index" \notin LearnerAttributes THEN "AttributeError"
  ELSE ""

\* _validate_mapping on the dicts the interactive flow produces (args is
\* always a list and kwargs a dict there): the exception raised, "" if none
validate_mapping(mapping) ==
  IF mapping.module = "" \/ mapping.function = "" THEN "ValueError" ELSE ""

\* DatabaseManager.upsert_mapping: the action name is "module:function",
\* or whichever of the two is not empty; args and kwargs are not stored
upsert_mapping(rows, command, module, function) ==
  add_mapping(rows, command,
              IF module # "" /\ function # "" THEN <<module, function>>
              ELSE IF function # "" THEN <<function>>
              ELSE IF module # "" THEN <<module>>
              ELSE << >>)

\* Learner.handle_unknown from the validation on; chosen_mapping is what
\* the suggestion, confirmation and manual-mapping steps before it yield
handle_unknown(rows, text_command, chosen_mapping) ==
  IF "_validate_mapping" \notin LearnerAttributes
  THEN [raised |-> "AttributeError", rows |-> rows]
  ELSE IF validate_mapping(chosen_mapping) # ""
  THEN [raised |-> validate_mapping(chosen_mapping), rows |-> rows]
  ELSE [raised |-> "",
        rows   |-> upsert_mapping(rows, text_command, chosen_mapping.module,
                                  chosen_mapping.function)]

\* ------------------------------------------------------- resolve_command
\* what resolve_command did: the exception it raised ("" when it
\* returned), the dict it returned, the step that produced it, whether the
\* confirm callback and the Learner were invoked, and the table afterwards
Resolution(raised, mapping, step, asked, learner, rows) ==
  [raised |-> raised, mapping |-> mapping, step |-> step, asked |-> asked,
   learner |-> learner, rows |-> rows]

\* mutant: only a score above the threshold auto-accepts
auto_accept_above(best) == best.key # NoKey /\ best.score > AutoAccept

\* `if action_key and score >= 0.8`
auto_accept(best) == best.key # NoKey /\ best.score >= AutoAccept

\* resolve_command from the Learner on (mapper.py:90-111)
learn(rows, text_command, asked, chosen_mapping) ==
  IF learner_init # ""
  THEN Resolution("Adaptive learner unavailable", None, "learner", asked, TRUE, rows)
  ELSE LET learnt == handle_unknown(rows, text_command, chosen_mapping)
           mapping == get_mapping(learnt.rows, text_command)
       IN  IF learnt.raised # ""
           THEN Resolution(learnt.raised, None, "learner", asked, TRUE, learnt.rows)
           ELSE IF mapping = None
           THEN Resolution("Mapping not found in database after learning step", None,
                           "learner", asked, TRUE, learnt.rows)
           ELSE Resolution("", enrich_mapping_with_args(text_command, mapping),
                           "learner", asked, TRUE, learnt.rows)

\* what an injected intent recognizer does with the text: it raises, or it
\* returns an action key (possibly an empty one) and a confidence, kept in
\* hundredths like the similarity scores
Intent(raised, key, confidence) ==
  [raised |-> raised, key |-> key, confidence |-> confidence]

\* AdaptiveMapper._recognize_or_match of a mapper built with an intent
\* recognizer: a recognizer that returns a key is believed whatever the
\* confidence; the synonym index is matched only when it raises or returns
\* no key
recognize_intent_or_match(intent, key_scores) ==
  IF ~intent.raised /\ intent.key # NoKey
  THEN [key |-> intent.key, score |-> intent.confidence]
  ELSE recognize_or_match(key_scores)

\* resolve_command from `if action_key and score >= 0.8` on
\* (mapper.py:70-111), `best` being what _recognize_or_match returned
resolve_from(best, rows, text_command, db_scores, confirm, chosen_mapping) ==
  LET auto  == IF auto_accept(best) THEN map_action_via_registry(best.key) ELSE None
      reuse == match_existing_db_command(rows, db_scores)
      asked == best.key # NoKey
      confirmed == IF asked /\ confirm THEN map_action_via_registry(best.key) ELSE None
  IN  IF auto # None
      THEN Resolution("", enrich_mapping_with_args(text_command, auto), "auto",
                      FALSE, FALSE, rows)
      ELSE IF reuse # None
      THEN Resolution("", reuse, "reuse", FALSE, FALSE, rows)
      ELSE IF confirmed # None
      THEN Resolution("", enrich_mapping_with_args(text_command, confirmed), "confirm",
                      TRUE, FALSE, rows)
      ELSE learn(rows, text_command, asked, chosen_mapping)

\* mutant: an affirmed confirmation is stored under the text
resolve_unknown_remembering(rows, text_command, key_scores, db_scores, confirm, chosen_mapping) ==
  LET out == resolve_from(recognize_or_match(key_scores), rows, text_command,
                          db_scores, confirm, chosen_mapping)
  IN  IF out.step = "confirm"
      THEN [out EXCEPT !.rows = upsert_mapping(rows, text_command, out.mapping.module,
                                               out.mapping.function)]
      ELSE out

\* resolve_command once the exact lookup has missed (mapper.py:69-111)
resolve_unknown(rows, text_command, key_scores, db_scores, confirm, chosen_mapping) ==
  resolve_from(recognize_or_match(key_scores), rows, text_command, db_scores, confirm,
               chosen_mapping)

\* mutant: the synonym match is tried before the exact lookup
resolve_command_matcher_first(rows, text_command, key_scores, db_scores, confirm, chosen_mapping, have_fuzzy) ==
  LET best == recognize_or_match(key_scores)
      auto == IF auto_accept(best) THEN map_action_via_registry(best.key) ELSE None
  IN  IF have_fuzzy /\ auto # None
      THEN Resolution("", enrich_mapping_with_args(text_command, auto), "auto",
                      FALSE, FALSE, rows)
      ELSE IF get_mapping(rows, text_command) # None
      THEN Resolution("", enrich_mapping_with_args(text_command,
                                                   get_mapping(rows, text_command)),
                      "exact", FALSE, FALSE, rows)
      ELSE IF ~have_fuzzy
      THEN Resolution("ImportError", None, "match", FALSE, FALSE, rows)
      ELSE resolve_unknown(rows, text_command, key_scores, db_scores, confirm,
                           chosen_mapping)

\* AdaptiveMapper.resolve_command: the exact lookup by the text as given,
\* then `from fuzzywuzzy import fuzz` at the top of _recognize_or_match,
\* which raises ImportError when the library is missing
resolve_command(rows, text_command, key_scores, db_scores, confirm, chosen_mapping, have_fuzzy) ==
  IF get_mapping(rows, text_command) # None
  THEN Resolution("", enrich_mapping_with_args(text_command,
                                               get_mapping(rows, text_command)),
                  "exact", FALSE, FALSE, rows)
  ELSE IF ~have_fuzzy
  THEN Resolution("ImportError", None, "match", FALSE, FALSE, rows)
  ELSE resolve_unknown(rows, text_command, key_scores, db_scores, confirm,
                       chosen_mapping)

\* AdaptiveMapper(intent_recognizer=...).resolve_command: the same steps,
\* with the recognizer consulted inside _recognize_or_match
resolve_command_recognizing(rows, text_command, intent, key_scores, db_scores, confirm, chosen_mapping, have_fuzzy) ==
  IF get_mapping(rows, text_command) # None
  THEN Resolution("", enrich_mapping_with_args(text_command,
                                               get_mapping(rows, text_command)),
                  "exact", FALSE, FALSE, rows)
  ELSE IF ~have_fuzzy
  THEN Resolution("ImportError", None, "match", FALSE, FALSE, rows)
  ELSE resolve_from(recognize_intent_or_match(intent, key_scores), rows, text_command,
                    db_scores, confirm, chosen_mapping)

\* ------------------------------------------------------- the store facade
\* what a call on the mappings table leaves behind: the rows, the exception
\* that reached the caller ("" when none), the value returned and the line
\* printed in the box ("" when nothing is printed)
StoreOutcome(rows, raised, returned, printed) ==
  [rows |-> rows, raised |-> raised, returned |-> returned, printed |-> printed]

\* database.upsert_mapping through the module-level facade: args and kwargs
\* are accepted and passed on to DatabaseManager.upsert_mapping, which uses
\* neither; a failed write raises out of add_mapping
store_upsert(rows, command, module, function, args, kwargs, db_ok) ==
  IF db_ok
  THEN StoreOutcome(upsert_mapping(rows, command, module, function), "", "None", "")
  ELSE StoreOutcome(rows, "OperationalError", "", "")

\* mutant: the row is looked up and deleted by the text as given
clear_command_mapping_as_given(rows, command, db_ok) ==
  IF strip(command) = << >>
  THEN StoreOutcome(rows, "", "None", "No command provided. Nothing to clear.")
  ELSE IF ~db_ok
  THEN StoreOutcome(rows, "", "None", "Failed to clear mapping for command")
  ELSE StoreOutcome({r \in rows : r.command_text # command}, "", "None",
                    IF get_mapping(rows, command) # None
                    THEN "cleared successfully"
                    ELSE "No existing mapping found for command")

\* learner.clear_command_mapping: the function has no return statement
\* with a value; the row is looked up and deleted by the stripped text; a
\* failed DELETE is caught and reported in the box
clear_command_mapping(rows, command, db_ok) ==
  LET normalized == strip(command)
      exists     == get_mapping(rows, normalized)
  IN  IF normalized = << >>
      THEN StoreOutcome(rows, "", "None", "No command provided. Nothing to clear.")
      ELSE IF ~db_ok
      THEN StoreOutcome(rows, "", "None", "Failed to clear mapping for command")
      ELSE StoreOutcome({r \in rows : r.command_text # normalized}, "", "None",
                        IF exists # None
                        THEN "cleared successfully"
                        ELSE "No existing mapping found for command")

\* ---------------------------------------------------------- the main loop
\* f"{module_name}.{function_name}", the function_executed of a success
\* response, as the one string the main loop logs
dotted ==
  [apps   |-> [open_app          |-> "apps.open_app",
               close_app         |-> "apps.close_app",
               list_running_apps |-> "apps.list_running_apps"],
   system |-> [shutdown          |-> "system.shutdown"]]

\* the main loop on a text that is no control word: handler.execute, then
\* `if func: db.log_history(command=text, action=func)` with the failure
\* of the write swallowed
main_command(executed, undone, h, id, text, resolution, role, body, loaded, bare, db_ok) ==
  LET out  == execute(executed, undone, h, id, resolution, role, body, loaded, bare,
                      db_ok)
      func == out.result.function_executed
  IN  IF func = NoPath THEN out
      ELSE Outcome(out.executed, out.undone,
                   log_history(out.history, text, dotted[func[1]][func[2]], db_ok),
                   out.result, out.calls)

\* `limit: int = 50`
DefaultLimit == 50

\* mutant: the rows come back in insertion order
get_history_oldest_first(h, limit) ==
  LET n == IF limit >= 1 THEN limit ELSE 1
      k == IF n <= Len(h) THEN n ELSE Len(h)
  IN  [i \in 1..k |-> h[i]]

\* DatabaseManager.get_history: max(1, limit) rows, ORDER BY id DESC
get_history(h, limit) ==
  LET n == IF limit >= 1 THEN limit ELSE 1
      k == IF n <= Len(h) THEN n ELSE Len(h)
  IN  [i \in 1..k |-> h[Len(h) + 1 - i]]

\* ------------------------------------------------------------ the actions
\* an operation's outcome becomes the next state
Becomes(op, out) ==
  /\ Len(out.history) <= MaxHistory
  /\ executed_stack' = out.executed
  /\ undone_stack' = out.undone
  /\ history' = out.history
  /\ last_op' = op
  /\ last_result' = out.result
  /\ calls' = out.calls
  /\ UNCHANGED env
  /\ UNCHANGED <<mappings, fuzzy, resolved>>

\* a direct call of undo_redo.record_action
RecordAction(function_path, args, kwargs, reversible, undo_function_path) ==
  /\ undo_redo
  /\ next_id <= MaxRecords
  /\ Becomes("record_action",
             record_action(executed_stack, undone_stack, history,
                           ActionRecord(next_id, function_path, args, kwargs,
                                        reversible, undo_function_path),
                           db_writable))
  /\ next_id' = next_id + 1

\* a call of undo_redo.undo_last
UndoLast ==
  /\ undo_redo
  /\ Becomes("undo_last",
             undo_last(executed_stack, undone_stack, history, bare_import, db_writable))
  /\ UNCHANGED next_id

\* a call of undo_redo.redo_last
RedoLast ==
  /\ undo_redo
  /\ Becomes("redo_last",
             redo_last(executed_stack, undone_stack, history, bare_import, db_writable))
  /\ UNCHANGED next_id

\* a call of CommandHandler.execute; the resolver's answer, the user's
\* role and what the automation function returns are inputs
Execute(resolution, role, body) ==
  LET out == execute(executed_stack, undone_stack, history, next_id, resolution,
                     role, body, undo_redo, bare_import, db_writable)
  IN  /\ Len(out.executed) = Len(executed_stack) + 1 => next_id <= MaxRecords
      /\ Becomes("execute", out)
      /\ next_id' = IF Len(out.executed) = Len(executed_stack) + 1
                    THEN next_id + 1 ELSE next_id

\* a call of CommandHandler.undo
HandlerUndo ==
  /\ Becomes("undo",
             handler_undo(executed_stack, undone_stack, history, undo_redo,
                          bare_import, db_writable))
  /\ UNCHANGED next_id

\* a call of CommandHandler.redo
HandlerRedo ==
  /\ Becomes("redo",
             handler_redo(executed_stack, undone_stack, history, undo_redo,
                          bare_import, db_writable))
  /\ UNCHANGED next_id

\* a call of database.add_mapping
AddMapping(command_text, action_name) ==
  /\ Cardinality(add_mapping(mappings, command_text, action_name)) <= MaxMappings
  /\ mappings' = add_mapping(mappings, command_text, action_name)
  /\ resolved' = NoResolution
  /\ UNCHANGED <<executed_stack, undone_stack, history, next_id, env, last_op,
                 last_result, calls, fuzzy>>

\* a call of mapper.resolve_command.  The similarity scores, the answer
\* the user would give to "Did you mean ...?" and the mapping the
\* Learner's interactive flow would produce are inputs; next to the
\* outcome the state keeps the text, the table as it was, what the exact
\* lookup found, the best
\* synonym match and the best stored command the scores give, and the two
\* interactive inputs where they were consulted.  The call is synchronous:
\* it starts once the caller has taken the previous answer.
Resolve(text_command, key_scores, db_scores, confirm, chosen_mapping) ==
  LET out == resolve_command(mappings, text_command, key_scores, db_scores, confirm,
                             chosen_mapping, fuzzy)
  IN  /\ resolved = NoResolution
      /\ mappings' = out.rows
      /\ resolved' = [step      |-> out.step,
                      raised    |-> out.raised,
                      mapping   |-> out.mapping,
                      asked     |-> out.asked,
                      learner   |-> out.learner,
                      text      |-> text_command,
                      table     |-> mappings,
                      stored    |-> get_mapping(mappings, text_command),
                      best      |-> recognize_or_match(key_scores),
                      db_best   |-> best_stored(mappings, db_scores),
                      confirm   |-> out.asked /\ confirm,
                      chosen    |-> IF out.learner THEN chosen_mapping ELSE None]
      /\ UNCHANGED <<executed_stack, undone_stack, history, next_id, env, last_op,
                     last_result, calls, fuzzy>>

\* a call of resolve_command on a mapper built with an intent recognizer;
\* the recognizer's answer is one more input
ResolveRecognizing(text_command, intent, key_scores, db_scores, confirm, chosen_mapping) ==
  LET out == resolve_command_recognizing(mappings, text_command, intent, key_scores,
                                         db_scores, confirm, chosen_mapping, fuzzy)
  IN  /\ resolved = NoResolution
      /\ mappings' = out.rows
      /\ resolved' = [step      |-> out.step,
                      raised    |-> out.raised,
                      mapping   |-> out.mapping,
                      asked     |-> out.asked,
                      learner   |-> out.learner,
                      text      |-> text_command,
                      table     |-> mappings,
                      stored    |-> get_mapping(mappings, text_command),
                      intent    |-> intent,
                      lexical   |-> recognize_or_match(key_scores),
                      best      |-> recognize_intent_or_match(intent, key_scores),
                      db_best   |-> best_stored(mappings, db_scores),
                      confirm   |-> out.asked /\ confirm,
                      chosen    |-> IF out.learner THEN chosen_mapping ELSE None]
      /\ UNCHANGED <<executed_stack, undone_stack, history, next_id, env, last_op,
                     last_result, calls, fuzzy>>

\* the caller takes the resolver's answer
Taken ==
  /\ resolved # NoResolution
  /\ resolved' = NoResolution
  /\ UNCHANGED <<executed_stack, undone_stack, history, next_id, env, last_op,
                 last_result, calls, mappings, fuzzy>>

\* a call of AdaptiveMapper._enrich_mapping_with_args
Enrich(text_command, mapping) ==
  /\ resolved' = [step    |-> "enrich",
                  text    |-> text_command,
                  given   |-> mapping,
                  mapping |-> enrich_mapping_with_args(text_command, mapping)]
  /\ UNCHANGED <<executed_stack, undone_stack, history, next_id, env, last_op,
                 last_result, calls, mappings, fuzzy>>

\* a call of database.upsert_mapping; next to the outcome the state keeps
\* the arguments and the table as it was
UpsertMapping(command, module, function, args, kwargs) ==
  LET out == store_upsert(mappings, command, module, function, args, kwargs,
                          db_writable)
  IN  /\ Cardinality(out.rows) <= MaxMappings
      /\ mappings' = out.rows
      /\ resolved' = [step     |-> "upsert",
                      raised   |-> out.raised,
                      text     |-> command,
                      module   |-> module,
                      function |-> function,
                      args     |-> args,
                      kwargs   |-> kwargs,
                      table    |-> mappings]
      /\ UNCHANGED <<executed_stack, undone_stack, history, next_id, env, last_op,
                     last_result, calls, fuzzy>>

\* a call of learner.clear_command_mapping
ClearMapping(command) ==
  LET out == clear_command_mapping(mappings, command, db_writable)
  IN  /\ mappings' = out.rows
      /\ resolved' = [step     |-> "clear",
                      raised   |-> out.raised,
                      returned |-> out.returned,
                      printed  |-> out.printed,
                      text     |-> command,
                      table    |-> mappings]
      /\ UNCHANGED <<executed_stack, undone_stack, history, next_id, env, last_op,
                     last_result, calls, fuzzy>>

\* a call of database.log_history; a failed write raises to this caller
\* and leaves the table as it was
LogHistory(command, action) ==
  /\ Len(history) < MaxHistory
  /\ history' = log_history(history, command, action, db_writable)
  /\ resolved' = NoResolution
  /\ UNCHANGED <<executed_stack, undone_stack, next_id, env, last_op,
                 last_result, calls, mappings, fuzzy>>

\* one round of the main loop on a command text
MainCommand(text, resolution, role, body) ==
  LET out == main_command(executed_stack, undone_stack, history, next_id, text,
                          resolution, role, body, undo_redo, bare_import, db_writable)
  IN  /\ Len(out.executed) = Len(executed_stack) + 1 => next_id <= MaxRecords
      /\ Becomes("execute", out)
      /\ next_id' = IF Len(out.executed) = Len(executed_stack) + 1
                    THEN next_id + 1 ELSE next_id

\* a call of database.get_history; the caller holds the answer until it
\* has taken it
GetHistory(limit) ==
  /\ resolved = NoResolution
  /\ resolved' = [step   |-> "history",
                  raised |-> "",
                  limit  |-> limit,
                  events |-> get_history(history, limit)]
  /\ UNCHANGED <<executed_stack, undone_stack, history, next_id, env, last_op,
                 last_result, calls, mappings, fuzzy>>

\* ------------------------------------------------------------ the inputs
FullPath(module, function) == <<"backend", "automation", module, function>>

RecordInput(function_path, args, kwargs, reversible, undo_function_path) ==
  [function_path |-> function_path, args |-> args, kwargs |-> kwargs,
   reversible |-> reversible, undo_function_path |-> undo_function_path]

\* the calls of record_action the model makes: one per way undo_last and
\* redo_last can go
RecordInputs ==
  { \* reversible, the inverse exists and accepts the arguments
    RecordInput(FullPath("apps", "open_app"), <<"chrome">>, {}, TRUE,
                FullPath("apps", "close_app")),
    \* reversible, the inverse cannot be found
    RecordInput(FullPath("apps", "open_app"), <<"chrome">>, {}, TRUE,
                FullPath("apps", "no_such_function")),
    \* reversible, but neither function accepts the (missing) argument
    RecordInput(FullPath("apps", "open_app"), << >>, {}, TRUE,
                FullPath("apps", "close_app")),
    \* flagged reversible without an inverse reference
    RecordInput(FullPath("apps", "open_app"), << >>, {<<"app_name", "chrome">>}, TRUE,
                NoPath),
    \* an inverse reference, but not flagged reversible
    RecordInput(FullPath("apps", "open_app"), <<"chrome">>, {}, FALSE,
                FullPath("apps", "close_app")) }

\* the mappings the resolver hands to execute in the model: one per way
\* execute can go
Mappings ==
  { Mapping("apps", "open_app", <<"chrome">>, {}),          \* runs
    Mapping("apps", "open_app", << >>, {}),                 \* the call raises TypeError
    Mapping("apps", "no_such_function", <<"chrome">>, {}),  \* AttributeError
    Mapping("nomod", "open_app", <<"chrome">>, {}),         \* ImportError
    Mapping("", "open_app", <<"chrome">>, {}) }             \* ValueError

NoMapping == [module |-> "", function |-> "", args |-> << >>, kwargs |-> {}]

\* what CommandHandler._resolve_command can answer: it raises, or it
\* returns a mapping dict
Resolutions ==
  {[raised |-> TRUE, mapping |-> NoMapping]}
    \cup {[raised |-> FALSE, mapping |-> m] : m \in Mappings}

Bodies == {"success", "error"}

Next ==
  \/ \E r \in RecordInputs :
       RecordAction(r.function_path, r.args, r.kwargs, r.reversible, r.undo_function_path)
  \/ UndoLast
  \/ RedoLast
  \/ \E resolution \in Resolutions, role \in Roles, body \in Bodies :
       Execute(resolution, role, body)

Spec == Init /\ [][Next]_vars

\* the command texts the mappings table holds in the model, and the ones
\* it is asked to resolve
StoreTexts ==
  {<<"open", " ", "chrome">>, <<"open", " ", " ", "chrome">>, <<"shutdown">>}
ResolveTexts == StoreTexts \cup {<<"open">>}

\* stored action names: one of the catalog, one without a colon
ActionNames == {<<"apps", "close_app">>, <<"open_browser">>}

\* token_set_ratio results around the two thresholds
KeyScores == {0, 79, 80}
DbScores == {79, 80}

\* what the Learner's interactive flow can yield: a mapping, or the empty
\* mapping it falls back to
ChosenMappings == {Mapping("apps", "open_app", << >>, {}), Mapping("", "", << >>, {})}

\* texts and mappings _enrich_mapping_with_args is applied to directly
EnrichTexts ==
  ResolveTexts \cup
    { <<" ", "open", " ", "google", " ", "chrome", " ">>,
      <<"search", " ", "python", " ", "tutorials">>,
      <<"open", " ", "example.com">>,
      << >> }
EnrichMappings ==
  { Mapping(m[1], m[2], args, kwargs) :
      m \in {<<"apps", "open_app">>, <<"apps", "close_app">>, <<"system", "shutdown">>,
             <<"browser", "open_url">>, <<"browser", "search_google">>,
             <<"youtube", "play_video">>, <<"", "">>},
      args \in {<< >>, << <<"firefox">> >>},
      kwargs \in {{}, {<<"app_name", <<"chrome">> >>}} }

ResolverInit ==
  /\ executed_stack = << >>
  /\ undone_stack = << >>
  /\ history = << >>
  /\ next_id = 1
  /\ bare_import = FALSE
  /\ db_writable = TRUE
  /\ undo_redo = TRUE
  /\ last_op = "init"
  /\ last_result = Result("none", "", NoPath, "none")
  /\ calls = << >>
  /\ mappings = {}
  /\ fuzzy \in BOOLEAN
  /\ resolved = NoResolution

ResolverNext ==
  \/ \E t \in StoreTexts, a \in ActionNames : AddMapping(t, a)
  \/ \E t \in ResolveTexts, key_scores \in [1..Len(commands_index) -> KeyScores],
        db_scores \in [{r.command_text : r \in mappings} -> DbScores],
        confirm \in BOOLEAN, chosen \in ChosenMappings :
       Resolve(t, key_scores, db_scores, confirm, chosen)
  \/ Taken

ResolverSpec == ResolverInit /\ [][ResolverNext]_vars

\* what the recognizer answers in the model: it raises, it knows no key, or
\* it names an action with a confidence just below or at the threshold
Intents ==
  {Intent(TRUE, NoKey, 0), Intent(FALSE, NoKey, 0)}
    \cup {Intent(FALSE, <<"apps", "close_app">>, c) : c \in {AutoAccept - 1, AutoAccept}}

\* the resolver of a mapper that was given an intent recognizer
RecognizerNext ==
  \/ \E t \in StoreTexts, a \in ActionNames : AddMapping(t, a)
  \/ \E t \in ResolveTexts, intent \in Intents,
        key_scores \in [1..Len(commands_index) -> KeyScores],
        db_scores \in [{r.command_text : r \in mappings} -> DbScores],
        confirm \in BOOLEAN, chosen \in ChosenMappings :
       ResolveRecognizing(t, intent, key_scores, db_scores, confirm, chosen)
  \/ Taken

RecognizerSpec == ResolverInit /\ [][RecognizerNext]_vars

\* argument enrichment on its own, applied to every text and mapping above
EnrichNext == \E t \in EnrichTexts, m \in EnrichMappings : Enrich(t, m)

EnrichSpec == ResolverInit /\ [][EnrichNext]_vars

\* the texts, action names and argument templates the store facade is
\* called with; one text carries a leading blank
FacadeTexts ==
  {<<"open", " ", "chrome">>, <<" ", "open", " ", "chrome">>, <<"shutdown">>}
FacadeActions == {<<"apps", "open_app">>, <<"apps", "close_app">>, <<"", "close_app">>}
FacadeArgs == {<< >>, <<"chrome">>}
FacadeKwargs == {{}, {<<"app_name", "chrome">>}}

\* the mappings table and the history table driven through the facade of
\* services/database.py and learner.clear_command_mapping
StoreInit ==
  /\ executed_stack = << >>
  /\ undone_stack = << >>
  /\ history = << >>
  /\ next_id = 1
  /\ bare_import = FALSE
  /\ db_writable \in BOOLEAN
  /\ undo_redo = TRUE
  /\ last_op = "init"
  /\ last_result = Result("none", "", NoPath, "none")
  /\ calls = << >>
  /\ mappings = {}
  /\ fuzzy = TRUE
  /\ resolved = NoResolution

StoreNext ==
  \/ \E t \in FacadeTexts, a \in FacadeActions, args \in FacadeArgs,
        kwargs \in FacadeKwargs :
       UpsertMapping(t, a[1], a[2], args, kwargs)
  \/ \E t \in FacadeTexts \cup {<<" ">>} : ClearMapping(t)
  \/ LogHistory(<<"apps", "open_app">>, "EXECUTE")

StoreSpec == StoreInit /\ [][StoreNext]_vars

\* the program as main.py drives it: every command goes through the
\* CommandHandler
HandlerNext ==
  \/ \E resolution \in Resolutions, role \in Roles, body \in Bodies :
       Execute(resolution, role, body)
  \/ HandlerUndo
  \/ HandlerRedo

HandlerSpec == Init /\ [][HandlerNext]_vars

\* the main loop of main.py next to the store: a command text, "undo",
\* "redo", "clear mapping <text>", an upsert, and a reader of the history
MainTexts == {<<"open", " ", "chrome">>}
Limits == {0, 1, 2, DefaultLimit}

MainNext ==
  \/ \E t \in MainTexts, resolution \in Resolutions, role \in Roles, body \in Bodies :
       MainCommand(t, resolution, role, body)
  \/ HandlerUndo
  \/ HandlerRedo
  \/ \E t \in MainTexts : ClearMapping(t)
  \/ \E t \in MainTexts : UpsertMapping(t, "apps", "open_app", << >>, {})
  \/ \E limit \in Limits : GetHistory(limit)
  \/ Taken

MainSpec == Init /\ [][MainNext]_vars

TypeOK ==
  /\ next_id \in 1..(MaxRecords + 1)
  /\ Len(history) <= MaxHistory
  /\ Len(executed_stack) + Len(undone_stack) <= MaxRecords

\* ------------------------------------------------------------ vocabulary
Ids(stack) == {stack[i].id : i \in 1..Len(stack)}

IdsOf(stack) == [i \in 1..Len(stack) |-> stack[i].id]

Kinds(h) == [i \in 1..Len(h) |-> h[i].action]

Event(record, kind) == [command |-> record.function_path, action |-> kind]

\* records that were created and are on neither stack
Discarded == (1..(next_id - 1)) \ (Ids(executed_stack) \cup Ids(undone_stack))

\* a step in which record_action ran: it alone creates a record
RecordStep == next_id' = next_id + 1

\* the step is a call of undo_last (redo_last) that found a record to move
UndoStep == last_op' = "undo_last" /\ executed_stack # << >>
RedoStep == last_op' = "redo_last" /\ undone_stack # << >>

\* the operation that ran last called record_action
RecordedLast ==
  \/ last_op = "record_action"
  \/ last_op = "execute" /\ last_result.status = "success" /\ undo_redo

\* record_action pushed a new record on top and emptied the undone-stack
RecordPushedOnTop ==
  /\ Len(executed_stack') = Len(executed_stack) + 1
  /\ SubSeq(executed_stack', 1, Len(executed_stack)) = executed_stack
  /\ Last(executed_stack').id = next_id
  /\ undone_stack' = << >>

\* ------------------------------------------------------------------- C1
\* C1 as claimed: every record_action pushes the new record on top of the
\* executed-stack, leaves the undone-stack empty and appends exactly one
\* EXECUTE event to the history log.
C1_RecordAppendsOneExecuteEvent ==
  [][RecordStep =>
       /\ RecordPushedOnTop
       /\ history' = Append(history, Event(Last(executed_stack'), "EXECUTE"))]_vars

\* C1 as amended: every record_action pushes the new record on top of the
\* executed-stack (the records below unchanged) and leaves the undone-stack
\* empty; it appends exactly one EXECUTE event when the history write
\* succeeds, and leaves the log unchanged when the write fails (the
\* failure is swallowed).
C1_RecordPushesClearsLogsIfWritable ==
  [][RecordStep =>
       /\ RecordPushedOnTop
       /\ history' = IF db_writable
                     THEN Append(history, Event(Last(executed_stack'), "EXECUTE"))
                     ELSE history]_vars

\* a record_action that followed an undo: it cleared a non-empty
\* undone-stack, pushed above an older record and logged EXECUTE
C1_Witness ==
  /\ last_op = "record_action"
  /\ db_writable
  /\ Len(history) >= 3
  /\ history[Len(history) - 1].action = "UNDO"
  /\ Last(history).action = "EXECUTE"
  /\ Len(executed_stack) >= 2
  /\ undone_stack = << >>

\* ------------------------------------------------------------------- C2
\* the log of record(A), record(B), undo_last(), record(C)
ABUndoC == <<"EXECUTE", "EXECUTE", "UNDO", "EXECUTE">>

\* C2: after record(A), record(B), undo_last(), record(C) the undone-stack
\* is empty and the executed-stack is [A, C]; a redo_last right after any
\* record_action reports "Nothing to redo" and changes neither stack; a
\* discarded record never comes back.
C2_RecordInvalidatesRedo ==
  /\ []((db_writable /\ Kinds(history) = ABUndoC) =>
          (undone_stack = << >> /\ IdsOf(executed_stack) = <<1, 3>>))
  /\ [][/\ (RecordedLast /\ last_op' = "redo_last") =>
              /\ last_result'.status = "error"
              /\ last_result'.message = "Nothing to redo"
              /\ UNCHANGED <<executed_stack, undone_stack>>
        /\ Discarded \subseteq Discarded']_vars

\* redo_last has just answered "Nothing to redo" after A, B, undo, C
C2_Witness ==
  /\ db_writable
  /\ Kinds(history) = ABUndoC
  /\ last_op = "redo_last"
  /\ last_result.message = "Nothing to redo"
  /\ Discarded = {2}

\* ------------------------------------------------------------------- C3
\* C3: undo_last on an empty executed-stack and redo_last on an empty
\* undone-stack return the soft failures "Nothing to undo" / "Nothing to
\* redo", and leave both stacks and the history log unchanged, with no
\* function invoked.
C3_EmptyStackSoftFailure ==
  [][/\ (last_op' = "undo_last" /\ executed_stack = << >>) =>
          /\ last_result'.status = "error"
          /\ last_result'.message = "Nothing to undo"
          /\ calls' = << >>
          /\ UNCHANGED <<executed_stack, undone_stack, history>>
     /\ (last_op' = "redo_last" /\ undone_stack = << >>) =>
          /\ last_result'.status = "error"
          /\ last_result'.message = "Nothing to redo"
          /\ calls' = << >>
          /\ UNCHANGED <<executed_stack, undone_stack, history>>]_vars

\* undo_last found the executed-stack empty while the log can be written
\* and the undone-stack holds records
C3_Witness ==
  /\ last_op = "undo_last"
  /\ last_result.message = "Nothing to undo"
  /\ db_writable
  /\ history # << >>
  /\ undone_stack # << >>

\* ------------------------------------------------------------------- C4
\* undo_last moved the top record from the executed- to the undone-stack
UndoMoved ==
  /\ executed_stack' = Front(executed_stack)
  /\ undone_stack' = Append(undone_stack, Last(executed_stack))

\* a record that is not reversible or has no inverse reference is
\* reported as such, and nothing is invoked
IrreversibleReported ==
  (~Last(executed_stack).reversible \/ Last(executed_stack).undo_function_path = NoPath)
    => /\ last_result'.status = "error"
       /\ last_result'.message = "Action is not reversible"
       /\ calls' = << >>

\* C4 as claimed: undo_last on a non-empty executed-stack always pops the
\* top record, pushes it on the undone-stack and appends one UNDO event,
\* reversible or not; an irreversible record is reported "Action is not
\* reversible" and no function is invoked.
C4_UndoAlwaysMovesAndLogs ==
  [][UndoStep =>
       /\ UndoMoved
       /\ history' = Append(history, Event(Last(executed_stack), "UNDO"))
       /\ IrreversibleReported]_vars

\* C4 as amended: the same, but the UNDO event is appended when the
\* history write succeeds; when it fails the log is unchanged and the
\* record is moved all the same.
C4_UndoAlwaysMovesLogsIfWritable ==
  [][UndoStep =>
       /\ UndoMoved
       /\ history' = IF db_writable
                     THEN Append(history, Event(Last(executed_stack), "UNDO"))
                     ELSE history
       /\ IrreversibleReported]_vars

\* undo_last moved a record that is flagged reversible but has no inverse
\* reference, and logged it
C4_Witness ==
  /\ last_op = "undo_last"
  /\ last_result.message = "Action is not reversible"
  /\ undone_stack # << >>
  /\ Last(undone_stack).reversible
  /\ Last(undone_stack).undo_function_path = NoPath
  /\ db_writable
  /\ Last(history).action = "UNDO"

\* ------------------------------------------------------------------- C5
\* the call of a record's original function with its original arguments
OriginalCall(record) ==
  [module   |-> record.function_path[Len(record.function_path) - 1],
   function |-> Last(record.function_path),
   args     |-> record.args,
   kwargs   |-> record.kwargs]

\* the call of a record's inverse function with its original arguments
InverseCall(record) ==
  [module   |-> record.undo_function_path[Len(record.undo_function_path) - 1],
   function |-> Last(record.undo_function_path),
   args     |-> record.args,
   kwargs   |-> record.kwargs]

\* C5: after record(A, reversible=false) and an undo_last that answered
\* "Action is not reversible", redo_last answers success, has called A's
\* original function with A's original arguments, and A is back on top of
\* the executed-stack; records created by the command handler included.
C5_RedoAfterIrreversibleUndoSucceeds ==
  [][(/\ last_op = "undo_last"
      /\ last_result.message = "Action is not reversible"
      /\ undone_stack # << >>
      /\ ~Last(undone_stack).reversible
      /\ last_op' = "redo_last") =>
       /\ last_result'.status = "success"
       /\ calls' = <<OriginalCall(Last(undone_stack))>>
       /\ Last(executed_stack') = Last(undone_stack)]_vars

\* ------------------------------------------------------------------- C6
\* C6: for a reversible record with an inverse reference undo_last calls
\* the inverse with the record's args and kwargs and answers success, or
\* it calls nothing and answers an error because the inverse cannot be
\* found or the call raises; either way the record has moved to the
\* undone-stack and the log keeps what it had, the UNDO event included.
C6_UndoRunsInverseNoRollback ==
  [][(/\ UndoStep
      /\ Last(executed_stack).reversible
      /\ Last(executed_stack).undo_function_path # NoPath) =>
       /\ \/ /\ last_result'.status = "success"
             /\ last_result'.function_executed = Last(executed_stack).undo_function_path
             /\ calls' = <<InverseCall(Last(executed_stack))>>
          \/ /\ last_result'.status = "error"
             /\ last_result'.message \in {"Undo function not found", "TypeError"}
             /\ calls' = << >>
       /\ UndoMoved
       /\ SubSeq(history', 1, Len(history)) = history
       /\ db_writable => Last(history') = Event(Last(executed_stack), "UNDO")]_vars

\* the inverse of a reversible record could not be found: undo_last
\* answered the error, the record sits on the undone-stack, the UNDO
\* event is in the log
C6_Witness ==
  /\ last_op = "undo_last"
  /\ last_result.message = "Undo function not found"
  /\ undone_stack # << >>
  /\ Last(undone_stack).reversible
  /\ db_writable
  /\ Last(history).action = "UNDO"

\* ------------------------------------------------------------------- C7
\* redo_last moved the top record from the undone- to the executed-stack
RedoMoved ==
  /\ undone_stack' = Front(undone_stack)
  /\ executed_stack' = Append(executed_stack, Last(undone_stack))

\* redo_last called the original function with the original arguments, or
\* called nothing and answered an error; never the inverse
OriginalReinvoked ==
  \/ /\ last_result'.status = "success"
     /\ last_result'.function_executed = Last(undone_stack).function_path
     /\ calls' = <<OriginalCall(Last(undone_stack))>>
  \/ /\ last_result'.status = "error"
     /\ last_result'.message \in {"Function not found for redo", "TypeError"}
     /\ calls' = << >>

\* C7 as claimed: redo_last on a non-empty undone-stack pops the top
\* record, pushes it back on the executed-stack, appends one REDO event
\* and re-invokes the original function with the original arguments; the
\* record stays on the executed-stack when the call fails.
C7_RedoMovesLogsAndReinvokes ==
  [][RedoStep =>
       /\ RedoMoved
       /\ history' = Append(history, Event(Last(undone_stack), "REDO"))
       /\ OriginalReinvoked]_vars

\* C7 as amended: the same, but the REDO event is appended when the
\* history write succeeds; when it fails the log is unchanged and the
\* record is moved and re-invoked all the same.
C7_RedoMovesReinvokesLogsIfWritable ==
  [][RedoStep =>
       /\ RedoMoved
       /\ history' = IF db_writable
                     THEN Append(history, Event(Last(undone_stack), "REDO"))
                     ELSE history
       /\ OriginalReinvoked]_vars

\* redo_last re-ran the original function of a record that also has an
\* inverse, and logged REDO
C7_Witness ==
  /\ last_op = "redo_last"
  /\ last_result.status = "success"
  /\ executed_stack # << >>
  /\ Last(executed_stack).undo_function_path # NoPath
  /\ calls = <<OriginalCall(Last(executed_stack))>>
  /\ db_writable
  /\ Last(history).action = "REDO"

\* ------------------------------------------------------------------- C8
\* C8: every record created is in exactly one of executed-stack,
\* undone-stack, discarded: no record occurrence is on both stacks or
\* twice on one; undo_last and redo_last keep |executed| + |undone| and
\* discard nothing; a record becomes discarded only in a record_action,
\* which discards exactly the undone-stack, and stays discarded.
C8_RecordInExactlyOnePlace ==
  /\ [](/\ Ids(executed_stack) \cap Ids(undone_stack) = {}
        /\ Cardinality(Ids(executed_stack)) = Len(executed_stack)
        /\ Cardinality(Ids(undone_stack)) = Len(undone_stack)
        /\ Ids(executed_stack) \cup Ids(undone_stack) \subseteq 1..(next_id - 1))
  /\ [][/\ last_op' \in {"undo_last", "redo_last"} =>
              /\ Len(executed_stack') + Len(undone_stack')
                   = Len(executed_stack) + Len(undone_stack)
              /\ Discarded' = Discarded
        /\ Discarded' # Discarded =>
              /\ RecordStep
              /\ Discarded' = Discarded \cup Ids(undone_stack)]_vars

\* all three places are populated
C8_Witness ==
  /\ executed_stack # << >>
  /\ undone_stack # << >>
  /\ Discarded # {}

\* ------------------------------------------------------------------- C9
\* C9: when the call of the resolved function raises, execute answers an
\* error response and record_action is not called: both stacks, the
\* history log and the record count are unchanged.
C9_RaisingActionNotRecorded ==
  [][(last_op' = "execute" /\ last_result'.message = "TypeError") =>
       /\ last_result'.status = "error"
       /\ last_result'.function_executed = NoPath
       /\ UNCHANGED <<executed_stack, undone_stack, history, next_id>>]_vars

\* execute has just answered the error of a raising call while both
\* stacks hold records
C9_Witness ==
  /\ last_op = "execute"
  /\ last_result.message = "TypeError"
  /\ undo_redo
  /\ executed_stack # << >>
  /\ undone_stack # << >>

\* ------------------------------------------------------------------ C10
\* C10: when the automation function returns an error result instead of
\* raising, execute pushes no ActionRecord and does not clear the
\* undone-stack.
C10_ErrorResultNotRecorded ==
  [][(last_op' = "execute" /\ last_result'.result = "error") =>
       UNCHANGED <<executed_stack, undone_stack>>]_vars

\* ------------------------------------------------------------------ C11
\* the resolver answered a mapping whose function exists, and the
\* permission gate denies it to the user's role
GateDenies(resolution, role) ==
  /\ ~resolution.raised
  /\ resolution.mapping.module \in AutomationModules
  /\ HasAttr(resolution.mapping.module, resolution.mapping.function)
  /\ ~check_permission(role, <<resolution.mapping.module, resolution.mapping.function>>)

\* C11: when the permission gate denies (user, action) in execute, the
\* action function is not invoked, both stacks, the history log and the
\* record count are unchanged, and the response is the error "Permission
\* denied".
C11_DenialShortCircuits ==
  [][\A resolution \in Resolutions, role \in Roles, body \in Bodies :
       (Execute(resolution, role, body) /\ GateDenies(resolution, role)) =>
         /\ calls' = << >>
         /\ last_result'.status = "error"
         /\ last_result'.message = "Permission denied"
         /\ UNCHANGED <<executed_stack, undone_stack, history, next_id>>]_vars

\* execute has just answered "Permission denied" while the engine is
\* loaded, the log is writable and both stacks hold records
C11_Witness ==
  /\ last_op = "execute"
  /\ last_result.message = "Permission denied"
  /\ calls = << >>
  /\ undo_redo
  /\ db_writable
  /\ executed_stack # << >>
  /\ undone_stack # << >>

\* ------------------------------------------------------------------ C12
\* C12: execute, undo and redo of the CommandHandler never raise: whatever
\* the resolver answered, whatever the mapping, the role, the state of the
\* history database and of the undo/redo service, each returns a response
\* with a status ("success" or "error") and a message; a missing undo/redo
\* service comes back as the error "Undo/redo service not available".
C12_HandlerNeverRaises ==
  /\ last_op \in {"execute", "undo", "redo"} =>
       /\ {"status", "message"} \subseteq DOMAIN last_result
       /\ last_result.status \in {"success", "error"}
  /\ (last_op \in {"undo", "redo"} /\ ~undo_redo) =>
       /\ last_result.status = "error"
       /\ last_result.message = "Undo/redo service not available"

\* undo was asked of a handler whose undo/redo service is missing, after
\* an execute that ran
C12_Witness ==
  /\ last_op = "undo"
  /\ ~undo_redo
  /\ last_result.status = "error"
  /\ executed_stack = << >>

\* ------------------------------------------------- resolver vocabulary
\* resolve_command has just answered
Resolving == resolved.step \in {"exact", "match", "auto", "reuse", "confirm", "learner"}

\* the best synonym match is at or above 0.8 and the catalog maps its key
SynonymHit == resolved.best.score >= 80 /\ resolved.best.key \in Registry

\* ------------------------------------------------------------------ C13
\* C13: when the text has an exact stored Mapping, resolve_command returns
\* the stored Mapping's module and function, also when a synonym matches
\* at 0.8 or above and maps to a different action, and it invokes neither
\* the confirm callback nor the Learner.
C13_StoredMappingWins ==
  (Resolving /\ resolved.stored # None) =>
    /\ resolved.step = "exact"
    /\ resolved.raised = ""
    /\ resolved.mapping.module = Get(resolved.stored, "module", "")
    /\ resolved.mapping.function = Get(resolved.stored, "function", "")
    /\ ~resolved.asked
    /\ ~resolved.learner

\* the text is stored as apps:close_app while its best synonym match, at
\* 0.8, maps to apps:open_app
C13_Witness ==
  /\ Resolving
  /\ fuzzy
  /\ resolved.stored # None
  /\ SynonymHit
  /\ resolved.best.key = <<"apps", "open_app">>
  /\ resolved.mapping.function = "close_app"

\* ------------------------------------------------------------------ C14
\* C14: with no exact stored Mapping, a best match of confidence exactly
\* 0.80 (score 80) whose key the catalog maps is returned, enriched, with
\* no confirmation prompt and no Learner; a confidence of 0.79 (score 79)
\* is never auto-accepted: the answer then comes from stored-command
\* reuse, from the confirmation or from the Learner step.
C14_ThresholdBoundary ==
  (Resolving /\ fuzzy /\ resolved.stored = None) =>
    /\ (resolved.best.score = 80 /\ resolved.best.key \in Registry) =>
         /\ resolved.step = "auto"
         /\ resolved.raised = ""
         /\ resolved.mapping.module = resolved.best.key[1]
         /\ resolved.mapping.function = resolved.best.key[2]
         /\ ~resolved.asked
         /\ ~resolved.learner
    /\ resolved.best.score <= 79 => resolved.step \in {"reuse", "confirm", "learner"}

\* a match of exactly 0.80 was auto-accepted although a stored command
\* was similar enough to be reused
C14_Witness ==
  /\ resolved.step = "auto"
  /\ resolved.best.score = 80
  /\ resolved.stored = None
  /\ resolved.db_best.score >= 80

\* ------------------------------------------------------------------ C15
\* a stored command text scores at least 80 against the input
StoredCommandHit == resolved.db_best.key # NoKey /\ resolved.db_best.score >= 80

\* C15: a stored command's Mapping is reused only when the exact lookup
\* missed and the auto-accept step produced no mapping, and before any
\* confirmation prompt or Learner call; whenever those two steps produced
\* nothing and the best stored command text scores at least 80, the answer
\* is that command's Mapping exactly as the table gives it, not enriched
\* against the new text; with the best score below 80 nothing is reused.
C15_StoredCommandReuse ==
  /\ resolved.step = "reuse" =>
       /\ resolved.stored = None
       /\ ~SynonymHit
       /\ StoredCommandHit
       /\ ~resolved.asked
       /\ ~resolved.learner
  /\ (Resolving /\ fuzzy /\ resolved.stored = None /\ ~SynonymHit) =>
       IF StoredCommandHit
       THEN /\ resolved.step = "reuse"
            /\ resolved.raised = ""
            /\ resolved.mapping = get_mapping(resolved.table, resolved.db_best.key)
       ELSE resolved.step \in {"confirm", "learner"}

\* "open  chrome" got the Mapping stored for "open chrome" back without
\* arguments, where enrichment would have added one; the best synonym
\* match was at 0.8 but unknown to the catalog
C15_Witness ==
  /\ resolved.step = "reuse"
  /\ resolved.best.score = 80
  /\ resolved.text = <<"open", " ", " ", "chrome">>
  /\ resolved.db_best.key = <<"open", " ", "chrome">>
  /\ resolved.mapping = get_mapping(mappings, <<"open", " ", "chrome">>)
  /\ Get(resolved.mapping, "module", "") = "apps"
  /\ enrich_mapping_with_args(resolved.text, resolved.mapping).args # << >>

\* ------------------------------------------------------------------ C16
\* C16: when the earlier steps produce no mapping, resolve_command calls
\* the Learner with the raw text; if the Learner's interactive flow yields
\* a non-empty module and function, a Mapping for the text is in the table
\* afterwards and resolve_command returns it; it fails only if no Mapping
\* exists after the Learner step.
C16_LearnerCompletes ==
  /\ (Resolving /\ fuzzy /\ resolved.stored = None /\ ~SynonymHit /\ ~StoredCommandHit
        /\ resolved.step # "confirm") => resolved.learner
  /\ (resolved.step = "learner" /\ resolved.chosen.module # ""
        /\ resolved.chosen.function # "") =>
       /\ get_mapping(mappings, resolved.text) # None
       /\ resolved.raised = ""
       /\ resolved.mapping.module = resolved.chosen.module
       /\ resolved.mapping.function = resolved.chosen.function
  /\ (resolved.step = "learner" /\ resolved.raised # "") =>
       get_mapping(mappings, resolved.text) = None

\* ------------------------------------------------------------------ C17
\* text.strip() with every run of blanks collapsed into one
RECURSIVE join(_)
join(words) ==
  IF Len(words) <= 1 THEN words
  ELSE <<words[1], " ">> \o join(Tail(words))

normalize(text) == join(split(text))

\* C17: the exact lookup is by the normalized text: when the table holds a
\* Mapping under a text that differs from the input only in leading,
\* trailing or repeated blanks, resolve_command answers from the exact
\* lookup, with that Mapping's module and function.
C17_LookupByNormalizedText ==
  \A r \in mappings :
    (Resolving /\ r \in resolved.table
       /\ normalize(r.command_text) = normalize(resolved.text)
       /\ \A q \in resolved.table :
            normalize(q.command_text) = normalize(resolved.text) => q = r) =>
      /\ resolved.step = "exact"
      /\ resolved.mapping.module
           = Get(get_mapping(resolved.table, r.command_text), "module", "")
      /\ resolved.mapping.function
           = Get(get_mapping(resolved.table, r.command_text), "function", "")

\* ------------------------------------------------------------------ C18
\* the mapping is one of apps.open_app and apps.close_app
AppRule(mapping) == mapping.module = "apps" /\ mapping.function \in {"open_app", "close_app"}

\* the mapping's action has no extraction rule
NoRule(mapping) ==
  <<mapping.module, mapping.function>> \notin
    {<<"apps", "open_app">>, <<"apps", "close_app">>, <<"browser", "open_url">>,
     <<"browser", "search_google">>, <<"youtube", "play_video">>,
     <<"youtube", "search_and_play">>}

C19_MatcherUnavailableDegrades ==
  (Resolving /\ ~fuzzy) =>
    /\ resolved.raised # "ImportError"
    /\ resolved.stored # None => resolved.step = "exact"
    /\ resolved.stored = None => (resolved.learner /\ ~resolved.asked)

\* ------------------------------------------------------------------ C20
\* C20: when the mapping the Learner's flow yields has an empty module or
\* function, the Learner step ends in a validation error (ValueError or
\* TypeError) and the mappings table is left unchanged; a Mapping is in
\* the table after a Learner step only if the mapping passed validation.
C20_ValidationBeforePersist ==
  /\ (resolved.step = "learner"
        /\ (resolved.chosen.module = "" \/ resolved.chosen.function = "")) =>
       /\ resolved.raised \in {"ValueError", "TypeError"}
       /\ mappings = resolved.table
  /\ (resolved.step = "learner" /\ mappings # resolved.table) =>
       (resolved.chosen.module # "" /\ resolved.chosen.function # "")

\* ------------------------------------------------------ store vocabulary
\* the last operation was a call of `step` on the store that returned
StoreDid(step) == resolved.step = step /\ resolved.raised = ""

\* the rows stored under a command text
RowsOf(rows, text) == {r \in rows : r.command_text = text}

\* "module:function", or whichever of the two is given
ActionNameOf(module, function) ==
  IF module # "" /\ function # "" THEN <<module, function>>
  ELSE IF function # "" THEN <<function>>
  ELSE <<module>>

\* ------------------------------------------------------------------ C21
\* C21: the mappings table never holds two rows for one command text, and
\* after an upsert the one row of the upserted text holds the mapping just
\* given, whatever was stored under that text before.
C21_OneMappingPerText ==
  /\ \A r1, r2 \in mappings : r1.command_text = r2.command_text => r1 = r2
  /\ StoreDid("upsert") =>
       RowsOf(mappings, resolved.text)
         = {[command_text |-> resolved.text,
             action_name  |-> ActionNameOf(resolved.module, resolved.function)]}

\* the text is upserted a second time, with another mapping, while another
\* text is stored too
C21_Witness ==
  /\ StoreDid("upsert")
  /\ \E r \in RowsOf(resolved.table, resolved.text) :
       r.action_name # ActionNameOf(resolved.module, resolved.function)
  /\ Cardinality(mappings) = 2

\* ------------------------------------------------------------------ C22
\* C22 as stated: clearing a command text removes the row stored under
\* that text, is a no-op without one, raises nothing, hands its caller
\* whether a row existed, and leaves the other rows and the history alone.
C22_ClearRemovesGivenText ==
  [][resolved'.step = "clear" =>
       /\ mappings' = mappings \ RowsOf(mappings, resolved'.text)
       /\ history' = history
       /\ resolved'.raised = ""
       /\ resolved'.returned
            = (IF RowsOf(mappings, resolved'.text) # {} THEN "True" ELSE "False")]_vars

\* C22 as the code has it: the row stored under the stripped text is
\* removed (none when the DELETE fails), nothing is raised, None is
\* returned, the box tells whether a row existed, and the other rows and
\* the history are left alone.
C22_ClearRemovesStrippedText ==
  [][resolved'.step = "clear" =>
       LET normalized == strip(resolved'.text)
           stored     == RowsOf(mappings, normalized)
       IN  /\ mappings' = IF db_writable THEN mappings \ stored ELSE mappings
           /\ history' = history
           /\ resolved'.raised = ""
           /\ resolved'.returned = "None"
           /\ resolved'.printed
                = (IF normalized = << >> THEN "No command provided. Nothing to clear."
                   ELSE IF ~db_writable THEN "Failed to clear mapping for command"
                   ELSE IF stored # {} THEN "cleared successfully"
                   ELSE "No existing mapping found for command")]_vars

\* a text with a leading blank is cleared while its stripped form and
\* another text are stored and the history holds events
C22_Witness ==
  /\ StoreDid("clear")
  /\ resolved.text # strip(resolved.text)
  /\ RowsOf(resolved.table, strip(resolved.text)) # {}
  /\ Cardinality(resolved.table) = 2
  /\ Cardinality(mappings) = 1
  /\ history # << >>

\* ------------------------------------------------------------------ C27
\* C27: right after upsert(text, module, function, args, kwargs) with a
\* non-empty module and function, get(text) returns a mapping with that
\* module, function, args and kwargs.
C27_UpsertGetRoundTrip ==
  (StoreDid("upsert") /\ resolved.module # "" /\ resolved.function # "") =>
    LET got == get_mapping(mappings, resolved.text)
    IN  /\ got # None
        /\ Get(got, "module", "") = resolved.module
        /\ Get(got, "function", "") = resolved.function
        /\ Get(got, "args", <<"missing">>) = resolved.args
        /\ Get(got, "kwargs", {"missing"}) = resolved.kwargs

\* ------------------------------------------------------------------ C23
IsPrefix(s, t) == Len(s) <= Len(t) /\ SubSeq(t, 1, Len(s)) = s

\* the events are the newest of the log, newest first
NewestFirst(events) ==
  \A i \in 1..Len(events) : events[i] = history[Len(history) + 1 - i]

\* C23 as stated: every step of the main loop, the store and the history
\* engine leaves the events already logged in place and unchanged, and
\* get_history(limit) answers the newest events, newest first, at most
\* `limit` of them.
C23_AppendOnlyNewestFirstAtMostLimit ==
  [][/\ IsPrefix(history, history')
     /\ (resolved' # resolved /\ resolved'.step = "history") =>
          /\ NewestFirst(resolved'.events)
          /\ Len(resolved'.events) <= resolved'.limit]_vars

\* C23 as the code has it: the log only grows at its end, and
\* get_history(limit) answers the newest max(1, limit) events (all of them
\* when the log is shorter), newest first.
C23_AppendOnlyNewestFirstClamped ==
  [][/\ IsPrefix(history, history')
     /\ (resolved' # resolved /\ resolved'.step = "history") =>
          LET n == IF resolved'.limit >= 1 THEN resolved'.limit ELSE 1
          IN  /\ NewestFirst(resolved'.events)
              /\ Len(resolved'.events) = (IF n <= Len(history) THEN n ELSE Len(history))]_vars

\* the log holds an EXECUTE row, the main loop's row and an UNDO row, and
\* get_history(2) has answered the two newest
C23_Witness ==
  /\ resolved.step = "history"
  /\ resolved.limit = 2
  /\ Len(history) = 3
  /\ history[3].action = "UNDO"
  /\ Len(resolved.events) = 2
  /\ resolved.events[1] = history[3]

\* ------------------------------------------------------------------ C24
\* the number of EXECUTE events in a log
ExecuteEvents(h) == Cardinality({i \in 1..Len(h) : h[i].action = "EXECUTE"})

\* a round of the main loop has executed a command successfully
CommandSucceeded ==
  /\ last_op' = "execute"
  /\ last_result'.status = "success"
  /\ <<resolved, mappings>>' = <<resolved, mappings>>

\* C24: every event of the history log has a kind among EXECUTE, UNDO and
\* REDO, whoever wrote it, and a successfully executed command adds exactly
\* one EXECUTE event.
C24_EveryEventHasAKind ==
  [][/\ \A i \in 1..Len(history') : history'[i].action \in {"EXECUTE", "UNDO", "REDO"}
     /\ CommandSucceeded => ExecuteEvents(history') = ExecuteEvents(history) + 1]_vars

\* ------------------------------------------------------------------ C25
\* the recognizer named an action, with a confidence below the threshold,
\* in a resolution that got as far as _recognize_or_match
LowConfidenceIntent ==
  /\ resolved.step # "none"
  /\ resolved.stored = None
  /\ fuzzy
  /\ ~resolved.intent.raised
  /\ resolved.intent.key # NoKey
  /\ resolved.intent.confidence < AutoAccept

\* C25: when the recognizer's confidence is below 0.8, the action key and
\* score resolve_command goes on with are those of the lexical match, so a
\* synonym match of at least 0.8 on a catalog action is still auto-accepted.
C25_LowConfidenceFallsBackToLexical ==
  LowConfidenceIntent =>
    /\ resolved.best = resolved.lexical
    /\ (auto_accept(resolved.lexical)
          /\ map_action_via_registry(resolved.lexical.key) # None) =>
         /\ resolved.step = "auto"
         /\ resolved.mapping.module = resolved.lexical.key[1]
         /\ resolved.mapping.function = resolved.lexical.key[2]

\* ------------------------------------------------------------------ C26
\* C26: the response of CommandHandler.undo and CommandHandler.redo has the
\* status the History Engine answered, and on a soft failure of the engine
\* its message.
C26_HandlerSurfacesEngineOutcome ==
  (last_op \in {"undo", "redo"} /\ undo_redo) =>
    LET engine == last_result.function_executed
    IN  /\ last_result.status = engine.status
        /\ engine.status = "error" => last_result.message = engine.message

\* ------------------------------------------------------------------ C28
\* C28: a resolution that succeeds by the exact hit, the auto-accepted
\* match, the reuse of a stored command or an affirmed confirmation leaves
\* the mappings table as it was; the table changes only in a resolution
\* that went to the Learner; and after an affirmed confirmation the text
\* still has no row, so the next call misses the exact lookup again.
C28_ResolvingWritesOnlyThroughLearner ==
  Resolving =>
    /\ resolved.step \in {"exact", "auto", "reuse", "confirm"} =>
         mappings = resolved.table
    /\ mappings # resolved.table => resolved.learner
    /\ resolved.step = "confirm" => get_mapping(mappings, resolved.text) = None

\* the user affirmed "Did you mean ...?" while the table held rows
C28_Witness ==
  /\ Resolving
  /\ resolved.step = "confirm"
  /\ resolved.raised = ""
  /\ resolved.confirm
  /\ resolved.mapping.module = "apps"
  /\ mappings # {}

\* ------------------------------------------------------------------ C29
\* every record on the two stacks is non-reversible and names no inverse
NoneReversible(stack) ==
  \A i \in 1..Len(stack) :
    ~stack[i].reversible /\ stack[i].undo_function_path = NoPath

\* the step is a call of CommandHandler.undo that found a record to undo
HandlerUndoStep == last_op' = "undo" /\ undo_redo /\ executed_stack # << >>

\* C29 as stated: the records the command handler creates are
\* non-reversible without an inverse reference, and an undo through the
\* handler moves the top record to the undone-stack, appends one UNDO
\* event and invokes no function.
C29_HandlerUndoMovesAndLogs ==
  [][/\ NoneReversible(executed_stack') /\ NoneReversible(undone_stack')
     /\ HandlerUndoStep =>
          /\ UndoMoved
          /\ history' = Append(history, Event(Last(executed_stack), "UNDO"))
          /\ calls' = << >>]_vars

\* C29 as the code has it: the same, with the UNDO event appended when the
\* history write succeeds and the log left as it was when it fails.
C29_HandlerUndoMovesLogsIfWritable ==
  [][/\ NoneReversible(executed_stack') /\ NoneReversible(undone_stack')
     /\ HandlerUndoStep =>
          /\ UndoMoved
          /\ history' = IF db_writable
                        THEN Append(history, Event(Last(executed_stack), "UNDO"))
                        ELSE history
          /\ calls' = << >>
          /\ last_result'.function_executed.message = "Action is not reversible"]_vars

\* the handler has undone an executed command: the record is on the
\* undone-stack, the UNDO event is logged and nothing was invoked
C29_Witness ==
  /\ last_op = "undo"
  /\ undone_stack # << >>
  /\ Last(undone_stack).function_path = <<"apps", "open_app">>
  /\ history # << >>
  /\ Last(history).action = "UNDO"
  /\ calls = << >>

\* ------------------------------------------------------------------ C30
\* the last operation was an undo_last that moved a record
UndoneLast == last_op = "undo_last" /\ last_result.message # "Nothing to undo"

\* C30: redo_last right after an undo_last that found a record puts both
\* stacks back to what they were before the undo, in content and order,
\* whether or not the inverse or the re-invoked original succeeded: the
\* redo applied to the state the undo leaves restores the stacks, and the
\* redo_last step that follows an undo moves the top of the undone-stack
\* back on top of the executed-stack.
C30_UndoThenRedoRestoresStacks ==
  [][/\ UndoStep =>
          LET redone == redo_last(executed_stack', undone_stack', history',
                                  bare_import, db_writable)
          IN  /\ redone.executed = executed_stack
              /\ redone.undone = undone_stack
     /\ (UndoneLast /\ RedoStep) =>
          /\ executed_stack' = Append(executed_stack, Last(undone_stack))
          /\ undone_stack' = Front(undone_stack)]_vars

\* with two records on the executed-stack the top one, a reversible one,
\* was undone and redone, and the redo failed to re-invoke the original:
\* both records are back on the executed-stack
C30_Witness ==
  /\ last_op = "redo_last"
  /\ last_result.status = "error"
  /\ Len(executed_stack) >= 2
  /\ undone_stack = << >>
  /\ Last(executed_stack).reversible
  /\ db_writable
  /\ Len(history) >= 2
  /\ Last(history).action = "REDO"
  /\ history[Len(history) - 1].action = "UNDO"
  /\ history[Len(history) - 1].command = Last(history).command

====
